---- MODULE Spec2Model ----
(***************************************************************************)
(* dompx: a docx templating engine (src/dompx.py).                         *)
(*                                                                         *)
(* Text is modelled as a sequence of one-character strings, so that the    *)
(* token regular expression, str.replace and str() are computed character  *)
(* by character.  The document is a heap of paragraphs, runs and tables    *)
(* addressed by number, as the python-docx proxies address lxml elements.  *)
(***************************************************************************)
EXTENDS Integers, Sequences, FiniteSets, TLC

(***************************************************************************)
(* Characters and the token pattern of compile():                          *)
(*     (@{?[\w\.\[\]\'\"\(\)]+}?)(![a-z]+)?                                 *)
(***************************************************************************)
Lower ==
    {"a","b","c","d","e","f","g","h","i","j","k","l","m",
     "n","o","p","q","r","s","t","u","v","w","x","y","z"}

Digits == {"0","1","2","3","4","5","6","7","8","9"}

Upper ==
    {"A","B","C","D","E","F","G","H","I","J","K","L","M",
     "N","O","P","Q","R","S","T","U","V","W","X","Y","Z"}

\* \w
WordChars == Lower \cup Upper \cup Digits \cup {"_"}

ExprChars == WordChars \cup {".", "[", "]", "'", "\"", "(", ")"}

\* s[i..j] as a sequence (empty when j < i).
Slice(s, i, j) == [k \in 1..(j - i + 1) |-> s[i + k - 1]]

\* The least number of S, d when S is empty; the greatest of a non-empty S.
MinOr(S, d) == IF S = {} THEN d ELSE CHOOSE k \in S : \A m \in S : k <= m
MaxOf(S)    == CHOOSE k \in S : \A m \in S : m <= k

\* The first index >= j of s that holds no character of class C (Len(s)+1
\* when there is none): where a greedy C* started at j stops.
RunEnd(s, j, C) == MinOr({k \in j..Len(s) : s[k] \notin C}, Len(s) + 1)

NoMatch == [ok |-> FALSE, from |-> 0, to |-> 0, expr |-> <<>>, mod |-> <<>>]

\* @{? : where [..]+ starts for a match that starts at i.
ExprStart(s, i) == IF i + 1 <= Len(s) /\ s[i + 1] = "{" THEN i + 2 ELSE i + 1

\* }? : the end of group 1 when [..]+ stopped at e1.
BraceEnd(s, e1) == IF e1 <= Len(s) /\ s[e1] = "}" THEN e1 + 1 ELSE e1

\* (![a-z]+)? : the end of the match when group 1 ended at e2.
ModEnd(s, e2) ==
    IF e2 + 1 <= Len(s) /\ s[e2] = "!" /\ s[e2 + 1] \in Lower
    THEN RunEnd(s, e2 + 1, Lower) ELSE e2

\* The match from i whose group 1 ends at e2 and which ends at m1 (both
\* the index after).  expr and mod are the two groups, mod empty when absent.
MatchRec(s, i, e2, m1) ==
    [ok |-> TRUE, from |-> i, to |-> m1,
     expr |-> Slice(s, i, e2 - 1), mod |-> Slice(s, e2, m1 - 1)]

MatchExpr(s, i, e2) == MatchRec(s, i, e2, ModEnd(s, e2))

\* [..]+ started at j and stopped at e1: it needs one character, and "{"
\* is not one, so giving the brace back does not help.
MatchFrom(s, i, j, e1) ==
    IF e1 = j THEN NoMatch ELSE MatchExpr(s, i, BraceEnd(s, e1))

MatchBody(s, i, j) == MatchFrom(s, i, j, RunEnd(s, j, ExprChars))

\* One attempt of the pattern at position i of s.
MatchAt(s, i) ==
    IF i > Len(s) \/ s[i] # "@" THEN NoMatch
    ELSE MatchBody(s, i, ExprStart(s, i))

\* The matches of the pattern in s from position i on, left to right, not
\* overlapping (re.finditer).
RECURSIVE ScanFrom(_, _)
RECURSIVE ScanStep(_, _, _)
ScanStep(s, i, m) ==
    IF m.ok THEN <<m>> \o ScanFrom(s, m.to) ELSE ScanFrom(s, i + 1)

ScanFrom(s, i) ==
    IF i > Len(s) THEN <<>> ELSE ScanStep(s, i, MatchAt(s, i))

Groups(ms) == [k \in 1..Len(ms) |-> [expr |-> ms[k].expr, mod |-> ms[k].mod]]

\* token.findall(text): the (expr, mod) pairs.
FindAll(s) == Groups(ScanFrom(s, 1))

\* token.search(text) is not None.
Search(s) == \E i \in 1..Len(s) : MatchAt(s, i).ok

\* str.replace(old, new) for a non-empty old: every non-overlapping
\* occurrence, left to right.
RECURSIVE ReplaceFrom(_, _, _, _)
ReplaceFrom(s, i, old, new) ==
    IF i > Len(s) THEN <<>>
    ELSE IF i + Len(old) - 1 <= Len(s) /\ Slice(s, i, i + Len(old) - 1) = old
         THEN new \o ReplaceFrom(s, i + Len(old), old, new)
         ELSE <<s[i]>> \o ReplaceFrom(s, i + 1, old, new)

StrReplace(s, old, new) == ReplaceFrom(s, 1, old, new)

(***************************************************************************)
(* Python values.  Every value is a record of one shape; t is its type.    *)
(***************************************************************************)
StrV(s)    == [t |-> "str",     s |-> s,    n |-> 0, items |-> <<>>]
IntV(n)    == [t |-> "int",     s |-> <<>>, n |-> n, items |-> <<>>]
NoneV      == [t |-> "None",    s |-> <<>>, n |-> 0, items |-> <<>>]
ListV(xs)  == [t |-> "list",    s |-> <<>>, n |-> 0, items |-> xs]
TupleV(xs) == [t |-> "tuple",   s |-> <<>>, n |-> 0, items |-> xs]
\* a function of the builtins module, by name
BuiltinV(name) == [t |-> "builtin", s |-> name, n |-> 0, items |-> <<>>]

\* bool(v): the truth value the walrus tests in img and tbl.
Truthy(v) ==
    CASE v.t = "str"     -> v.s # <<>>
      [] v.t = "int"     -> v.n # 0
      [] v.t = "None"    -> FALSE
      [] v.t = "list"    -> v.items # <<>>
      [] v.t = "tuple"   -> v.items # <<>>
      [] v.t = "builtin" -> TRUE

DigitOf(d) == CASE d = 0 -> "0" [] d = 1 -> "1" [] d = 2 -> "2" [] d = 3 -> "3"
                [] d = 4 -> "4" [] d = 5 -> "5" [] d = 6 -> "6" [] d = 7 -> "7"
                [] d = 8 -> "8" [] d = 9 -> "9"

RECURSIVE NatStr(_)
NatStr(n) == IF n < 10 THEN <<DigitOf(n)>>
             ELSE NatStr(n \div 10) \o <<DigitOf(n % 10)>>

IntStr(n) == IF n < 0 THEN <<"-">> \o NatStr(0 - n) ELSE NatStr(n)

\* repr(v), and ", ".join(repr(x) for x in xs)
RECURSIVE Repr(_)
RECURSIVE JoinRepr(_)
JoinRepr(xs) ==
    IF xs = <<>> THEN <<>>
    ELSE IF Len(xs) = 1 THEN Repr(xs[1])
    ELSE Repr(xs[1]) \o <<",", " ">> \o JoinRepr(Tail(xs))

Repr(v) ==
    CASE v.t = "str"     -> <<"'">> \o v.s \o <<"'">>
      [] v.t = "int"     -> IntStr(v.n)
      [] v.t = "None"    -> <<"N","o","n","e">>
      [] v.t = "list"    -> <<"[">> \o JoinRepr(v.items) \o <<"]">>
      [] v.t = "tuple"   -> <<"(">> \o JoinRepr(v.items)
                            \o (IF Len(v.items) = 1 THEN <<",">> ELSE <<>>)
                            \o <<")">>
      [] v.t = "builtin" -> <<"<","b","u","i","l","t","-","i","n"," ",
                              "f","u","n","c","t","i","o","n"," ">>
                            \o v.s \o <<">">>

\* str(v)
Str(v) == IF v.t = "str" THEN v.s ELSE Repr(v)

(***************************************************************************)
(* Names.  A name is a sequence of characters, like every text.            *)
(***************************************************************************)
IsIdent(b) ==
    /\ b # <<>>
    /\ \A k \in 1..Len(b) : b[k] \in WordChars
    /\ b[1] \notin Digits

IsNumber(b) == b # <<>> /\ \A k \in 1..Len(b) : b[k] \in Digits

RECURSIVE NatOf(_)
NatOf(b) ==
    IF b = <<>> THEN 0
    ELSE 10 * NatOf(SubSeq(b, 1, Len(b) - 1))
         + (CHOOSE d \in 0..9 : DigitOf(d) = b[Len(b)])

PopSuffix == <<".", "p", "o", "p", "(", ")">>

\* <identifier>.pop()
IsPopCall(b) ==
    /\ Len(b) > Len(PopSuffix)
    /\ SubSeq(b, Len(b) - Len(PopSuffix) + 1, Len(b)) = PopSuffix
    /\ IsIdent(SubSeq(b, 1, Len(b) - Len(PopSuffix)))

\* Names eval() finds in the builtins module, which Python adds to the
\* empty globals dict handed to eval (three of them stand for the module).
BuiltinNames == { <<"l","e","n">>, <<"i","d">>, <<"m","a","x">> }

\* The module namespace globals() returns, restricted to the names a
\* modifier ![a-z]+ can spell: what each is when called with the five
\* handler arguments.
Globals ==
    (<<"r","e","p","l","a","c","e">> :> "replace") @@
    (<<"i","m","g">> :> "img") @@
    (<<"t","b","l">> :> "tbl") @@
    (<<"i","o">> :> "module") @@
    (<<"r","e">> :> "module") @@
    (<<"p","a","r","t","i","a","l">> :> "class") @@
    (<<"p","a","r","a","g","r","a","p","h","s">> :> "function") @@
    (<<"d","o","m","p">> :> "function") @@
    (<<"c","o","m","p","i","l","e">> :> "function")

\* globals().get(mod[1:], replace)
HandlerOf(mod) ==
    LET name == IF mod = <<>> THEN <<>> ELSE Tail(mod)
    IN  IF name \in DOMAIN Globals THEN Globals[name] ELSE "replace"

\* Image files that exist where the program runs.
PngPath == <<"a", ".", "p", "n", "g">>
Files == {PngPath}

(***************************************************************************)
(* compile_expr                                                            *)
(***************************************************************************)
\* s.strip('{}')
RECURSIVE StripBraces(_)
StripBraces(s) ==
    IF s = <<>> THEN s
    ELSE IF s[1] \in {"{", "}"} THEN StripBraces(Tail(s))
    ELSE IF s[Len(s)] \in {"{", "}"} THEN StripBraces(SubSeq(s, 1, Len(s) - 1))
    ELSE s

\* Name lookup of eval(body, {}, data): the locals (data), then the
\* globals, which hold only the builtins.
Lookup(name, d) ==
    IF name \in DOMAIN d THEN [found |-> TRUE, val |-> d[name]]
    ELSE IF name \in BuiltinNames THEN [found |-> TRUE, val |-> BuiltinV(name)]
    ELSE [found |-> FALSE, val |-> NoneV]

Ok(v, d)    == [err |-> "", val |-> v, data |-> d]
Raise(e, d) == [err |-> e, val |-> NoneV, data |-> d]

\* A name: its value, and for a name that is not found (NameError) the
\* token text expr.
EvalName(expr, r, d) == IF r.found THEN Ok(r.val, d) ELSE Ok(StrV(expr), d)

\* xs.pop() of the list xs bound to name: its last item leaves the list.
PopList(name, xs, d) ==
    IF xs = <<>> THEN Raise("IndexError", d)
    ELSE Ok(xs[Len(xs)],
            [d EXCEPT ![name] = ListV(SubSeq(xs, 1, Len(xs) - 1))])

\* <name>.pop() where the lookup of name gave r.
EvalPop(expr, name, r, d) ==
    IF ~r.found THEN Ok(StrV(expr), d)
    ELSE IF r.val.t # "list" THEN Raise("AttributeError", d)
    ELSE PopList(name, r.val.items, d)

PopTarget(body) == SubSeq(body, 1, Len(body) - Len(PopSuffix))

\* eval(body, {}, data) with its except NameError.  The expressions of the
\* model are a name, a number and <name>.pop(); any other text is a syntax
\* error.  err is "" or the exception that escapes; data is the mapping
\* after the evaluation.
EvalBody(expr, body, d) ==
    IF IsNumber(body) THEN Ok(IntV(NatOf(body)), d)
    ELSE IF IsIdent(body) THEN EvalName(expr, Lookup(body, d), d)
    ELSE IF IsPopCall(body)
         THEN EvalPop(expr, PopTarget(body), Lookup(PopTarget(body), d), d)
    ELSE Raise("SyntaxError", d)

compile_expr(expr, d) == EvalBody(expr, StripBraces(Tail(expr)), d)

(***************************************************************************)
(* The document.  Paragraphs, runs and tables are numbered; a paragraph is *)
(* the sequence of its child elements (runs, <<"r", id>>, and whatever     *)
(* else was spliced between them), a container (the body, the header, the  *)
(* footer, a table cell) the sequence of its block items (paragraphs,      *)
(* <<"p", id>>, and tables, <<"t", id>>).                                   *)
(***************************************************************************)
VARIABLES
    para,      \* para[p]: the child elements of paragraph p
    rtext,     \* rtext[r]: run.text of run r
    rpics,     \* rpics[r]: the pictures run r holds
    tbls,      \* tbls[t]: [rows, cols, cell: <<row, col>> -> block items]
    cont,      \* [body, header, footer]: block items of section 0
    data,      \* the data mapping: name -> value
    wk,        \* the paragraphs() generator: where it is suspended
    dm,        \* domp: the paragraph, its runs, the matches of the run
    pc,        \* "walk", "run", "done" (saved), "failed" (an exception)
    err,       \* the exception that escaped compile, or ""
    init0,     \* history: the document and the data compile was given
    yielded,   \* history: the paragraphs the generator yielded, in order
    calls      \* history: the handler invocations, in order

vars == <<para, rtext, rpics, tbls, cont, data, wk, dm, pc, err,
          init0, yielded, calls>>

\* The items of kind k ("p", "t", "r") of a sequence of items, in order.
RECURSIVE Ids(_, _)
Ids(items, k) ==
    IF items = <<>> THEN <<>>
    ELSE (IF items[1][1] = k THEN <<items[1][2]>> ELSE <<>>)
         \o Ids(Tail(items), k)

\* container.paragraphs, container.tables, paragraph.runs, paragraph.text
Paragraphs(blocks) == Ids(blocks, "p")
Tables(blocks)     == Ids(blocks, "t")
Runs(kids)         == Ids(kids, "r")

RECURSIVE Concat(_, _)
Concat(rt, rs) ==
    IF rs = <<>> THEN <<>> ELSE rt[rs[1]] \o Concat(rt, Tail(rs))

ParaText(pa, rt, p) == Concat(rt, Runs(pa[p]))


(***************************************************************************)
(* The documents and the data compile is given.                            *)
(***************************************************************************)
MaxRows  == 2       \* rows of a table of the template
MaxCols  == 2       \* columns of a table of the template
MaxDepth == 2       \* tables nested in the first cell of a table
MaxNewTables == 3   \* tables one compile may add to the document

Plain == <<"x">>

\* Text with the marker characters in it and no match of the pattern.
NoToken == <<"@", " ", "a", "!">>

EmptyHeap == [para |-> <<>>, rtext |-> <<>>, tbls |-> <<>>]

\* n more paragraphs of one run each, the run holding text.
AddParas(h, n, text) ==
    [h EXCEPT
       !.para  = @ \o [k \in 1..n |-> << <<"r", Len(h.rtext) + k>> >>],
       !.rtext = @ \o [k \in 1..n |-> text]]

\* The cells of a rows x cols table whose paragraphs follow paragraph
\* base, the first cell holding table sub (when not 0) after its paragraph.
Cells(base, rows, cols, sub) ==
    [rc \in (1..rows) \X (1..cols) |->
       << <<"p", base + (rc[1] - 1) * cols + rc[2]>> >>
       \o (IF sub > 0 /\ rc = <<1, 1>> THEN << <<"t", sub>> >> ELSE <<>>)]

TableOn(base, rows, cols, sub) ==
    [h  |-> [sub.h EXCEPT !.tbls =
               Append(@, [rows |-> rows, cols |-> cols,
                          cell |-> Cells(base, rows, cols, sub.id)])],
     id |-> Len(sub.h.tbls) + 1]

\* A rows x cols table of one-paragraph cells; with depth > 0 its first
\* cell also holds a 1 x 1 table of depth - 1.
RECURSIVE MkTable(_, _, _, _)
RECURSIVE SubTable(_, _)
SubTable(h, depth) ==
    IF depth > 0 THEN MkTable(h, 1, 1, depth - 1) ELSE [h |-> h, id |-> 0]

MkTable(h, rows, cols, depth) ==
    TableOn(Len(h.para), rows, cols,
            SubTable(AddParas(h, rows * cols, Plain), depth))

\* A container: a paragraph (p1), then a table (tid) when withTable, then
\* (the body only) a paragraph of text NoToken.
ContEnd(withTable, trailing, p1, tid, h) ==
    [h |-> h,
     blocks |-> << <<"p", p1>> >>
                \o (IF withTable THEN << <<"t", tid>> >> ELSE <<>>)
                \o (IF trailing THEN << <<"p", Len(h.para)>> >> ELSE <<>>)]

ContWith(withTable, trailing, p1, t) ==
    ContEnd(withTable, trailing, p1, t.id,
            IF trailing THEN AddParas(t.h, 1, NoToken) ELSE t.h)

ContOn(withTable, trailing, rows, cols, depth, h) ==
    ContWith(withTable, trailing, Len(h.para),
             IF withTable THEN MkTable(h, rows, cols, depth)
             ELSE [h |-> h, id |-> 0])

MkCont(h, withTable, rows, cols, depth, trailing) ==
    ContOn(withTable, trailing, rows, cols, depth, AddParas(h, 1, Plain))

Wheres == { {}, {"body"}, {"header"}, {"footer"}, {"body", "header", "footer"} }

DocF(b, h, f) ==
    [para |-> f.h.para, rtext |-> f.h.rtext, tbls |-> f.h.tbls,
     cont |-> [body |-> b.blocks, header |-> h.blocks, footer |-> f.blocks]]

DocH(where, rows, cols, depth, b, h) ==
    DocF(b, h, MkCont(h.h, "footer" \in where, cols, rows, depth, FALSE))

DocB(where, rows, cols, depth, b) ==
    DocH(where, rows, cols, depth, b,
         MkCont(b.h, "header" \in where, rows, cols, depth, FALSE))

\* The document with a table (rows x cols, nested depth deep; cols x rows
\* in the footer) in the containers of where.
MkDoc(where, rows, cols, depth) ==
    DocB(where, rows, cols, depth,
         MkCont(EmptyHeap, "body" \in where, rows, cols, depth, TRUE))

\* The paragraphs whose runs the template author wrote: the first of the
\* body, the first of the header, and the one of the innermost cell of the
\* first table.
Focus(d) ==
    {1, d.cont.header[1][2]}
    \cup (IF d.tbls = <<>> THEN {} ELSE {d.tbls[1].cell[<<1, 1>>][1][2]})

\* The paragraph p of d rewritten to hold the runs of texts ts.
WithRuns(d, p, ts) ==
    [d EXCEPT
       !.rtext = [@ EXCEPT ![d.para[p][1][2]] = ts[1]]
                 \o [k \in 1..(Len(ts) - 1) |-> ts[k + 1]],
       !.para  = [@ EXCEPT ![p] =
                    @ \o [k \in 1..(Len(ts) - 1) |->
                            <<"r", Len(d.rtext) + k>>]]]

\* Pieces of template text.
Sp    == <<" ">>
At(n) == <<"@">> \o n
MTbl  == <<"!", "t", "b", "l">>
MImg  == <<"!", "i", "m", "g">>
NLen  == <<"l", "e", "n">>

\* The runs of the paragraph the template author wrote.
RunCases ==
    { << Plain >>,
      << <<"@">>, <<"a">> >>,
      << At(<<"a">>) >>,
      << At(<<"a">>), At(<<"b">>) >>,
      << At(<<"a">>) \o Sp \o At(<<"a", "b">>) >>,
      << At(<<"a">>) \o Sp \o At(<<"a">>) >>,
      << At(<<"c">>) \o Sp \o At(<<"b">>) >>,
      << Plain \o Sp \o At(<<"a">>) \o <<"!", "z", "z">> \o Sp \o Plain >>,
      << At(<<"z">>) >>,
      << At(NLen) >>,
      << <<"@", "{", "a", "}">> >>,
      << At(<<"7">>) >>,
      << At(<<"a", ".">>) >>,
      << At(<<"g">>) \o MTbl, Plain >>,
      << At(<<"g">>) \o MTbl \o Sp \o At(<<"g">>) \o MTbl >>,
      << At(<<"n">>) \o MTbl >>,
      << At(<<"s">>) \o MTbl >>,
      << At(<<"f">>) \o MTbl >>,
      << At(<<"u">>) \o MTbl >>,
      << At(<<"r">>) \o MTbl >>,
      << At(<<"v">>) \o MTbl >>,
      << At(<<"z">>) \o MTbl >>,
      << At(<<"e">>) \o MTbl >>,
      << At(<<"h">>) \o MTbl >>,
      << At(<<"q">>) \o MImg >>,
      << At(<<"p">>) \o MImg >>,
      << At(<<"n">>) \o MImg >>,
      << At(<<"f">>) \o MImg >>,
      << At(<<"t">>) \o MImg >>,
      << At(<<"z">>) \o MImg >>,
      << At(<<"q">>) \o MImg \o Sp \o At(<<"a">>) >>,
      << At(<<"a">>) \o <<"!", "r", "e">> >>,
      << At(<<"a">>) \o <<"!", "d", "o", "m", "p">> >>,
      << At(<<"f">>) \o PopSuffix >>,
      << At(<<"f">>) \o PopSuffix \o Sp \o At(<<"f">>) \o MTbl >> }

Row(a, b) == ListV(<<IntV(a), IntV(b)>>)

\* The data mapping compile is given.
Data0 ==
    (<<"a">> :> StrV(<<"X">>)) @@
    (<<"a", "b">> :> StrV(<<"Y">>)) @@
    (<<"b">> :> StrV(<<"Z">>)) @@
    (<<"c">> :> StrV(At(<<"b">>))) @@
    (<<"n">> :> IntV(5)) @@
    (<<"s">> :> StrV(<<"n", "o">>)) @@
    (<<"g">> :> ListV(<<Row(1, 2), Row(3, 4)>>)) @@
    (<<"h">> :> ListV(<<ListV(<<StrV(At(<<"h">>) \o MTbl)>>)>>)) @@
    (<<"q">> :> TupleV(<<StrV(PngPath), IntV(10), NoneV>>)) @@
    (<<"p">> :> StrV(PngPath)) @@
    (<<"t">> :> TupleV(<<StrV(PngPath), IntV(10)>>)) @@
    (<<"f">> :> Row(1, 2)) @@
    (<<"r">> :> ListV(<<ListV(<<IntV(1)>>), Row(2, 3)>>)) @@
    (<<"v">> :> ListV(<<Row(1, 2), ListV(<<IntV(3)>>)>>)) @@
    (<<"u">> :> TupleV(<<ListV(<<IntV(1)>>), ListV(<<IntV(2)>>)>>)) @@
    (<<"e">> :> ListV(<<>>))

(***************************************************************************)
(* paragraphs() and table_paragraphs(): the generator, suspended at a      *)
(* yield.  A frame is one running table_paragraphs(tables): the table, the *)
(* column and the cell its three loops are at, and the paragraphs of that  *)
(* cell (the list the innermost loop iterates) with the number yielded.    *)
(***************************************************************************)
\* The first cell at or after (ti, col, row) in the order of the loops
\*   for table in tables: for col in table.columns: for cell in col.cells
\* or ti = Len(tables) + 1 when the loops are over.
RECURSIVE SeekCell(_, _, _, _, _)
SeekCell(tb, tables, ti, col, row) ==
    IF ti > Len(tables) THEN [ti |-> ti, col |-> 1, row |-> 1]
    ELSE IF col > tb[tables[ti]].cols THEN SeekCell(tb, tables, ti + 1, 1, 1)
    ELSE IF row > tb[tables[ti]].rows THEN SeekCell(tb, tables, ti, col + 1, 1)
    ELSE [ti |-> ti, col |-> col, row |-> row]

\* Slip: the cells of a table taken row by row (the next of the row, then
\* the first of the next row).
NextCellByRows(tb, tables, ti, col, row) ==
    IF col < tb[tables[ti]].cols
    THEN [ti |-> ti, col |-> col + 1, row |-> row]
    ELSE IF row < tb[tables[ti]].rows
    THEN [ti |-> ti, col |-> 1, row |-> row + 1]
    ELSE SeekCell(tb, tables, ti + 1, 1, 1)

\* The cell after (ti, col, row): the next of the column.
NextCell(tb, tables, ti, col, row) == SeekCell(tb, tables, ti, col, row + 1)

CellOf(tb, f) == tb[f.tables[f.ti]].cell[<<f.row, f.col>>]

\* The frame at the cell at position pos, about to iterate cell.paragraphs.
AtCell(tb, tables, pos) ==
    [tables |-> tables, ti |-> pos.ti, col |-> pos.col, row |-> pos.row,
     plist |-> IF pos.ti > Len(tables) THEN <<>>
               ELSE Paragraphs(tb[tables[pos.ti]].cell[<<pos.row, pos.col>>]),
     pi |-> 0]

NewFrame(tb, tables) == AtCell(tb, tables, SeekCell(tb, tables, 1, 1, 1))

PhaseAfter(ph) ==
    CASE ph = "new" -> "body" [] ph = "body" -> "header"
      [] ph = "header" -> "footer" [] ph = "footer" -> "end"

\* The generator entering the part ph of paragraphs().
AtPhase(ph, ct) ==
    [phase |-> ph,
     plist |-> IF ph = "end" THEN <<>> ELSE Paragraphs(ct[ph]),
     pi |-> 0, stack |-> <<>>]

\* The stack after its top frame returned to the frame g under it, which
\* goes on to its next cell.
Returned(tb, stack, g) ==
    Append(SubSeq(stack, 1, Len(stack) - 2),
           AtCell(tb, g.tables, NextCell(tb, g.tables, g.ti, g.col, g.row)))

\* next(generator): runs the generator w to its next yield over the
\* document (tb, ct) as it is now.  out is the paragraph yielded, 0 when
\* the generator returns.
RECURSIVE Resume(_, _, _)
RECURSIVE ResumeTop(_, _, _, _)
ResumeTop(w, tb, ct, f) ==
    IF f.ti > Len(f.tables) THEN
        \* this table_paragraphs returns
        IF Len(w.stack) = 1
        THEN Resume(AtPhase(PhaseAfter(w.phase), ct), tb, ct)
        ELSE Resume([w EXCEPT !.stack =
                       Returned(tb, w.stack, w.stack[Len(w.stack) - 1])],
                    tb, ct)
    ELSE IF f.pi < Len(f.plist) THEN
        [w |-> [w EXCEPT !.stack[Len(w.stack)].pi = @ + 1],
         out |-> f.plist[f.pi + 1]]
    ELSE \* yield from table_paragraphs(cell.tables)
        Resume([w EXCEPT !.stack =
                  Append(@, NewFrame(tb, Tables(CellOf(tb, f))))], tb, ct)

Resume(w, tb, ct) ==
    IF w.phase = "end" THEN [w |-> w, out |-> 0]
    ELSE IF w.phase = "new" THEN Resume(AtPhase("body", ct), tb, ct)
    ELSE IF w.stack = <<>> THEN
        IF w.pi < Len(w.plist)
        THEN [w |-> [w EXCEPT !.pi = @ + 1], out |-> w.plist[w.pi + 1]]
        ELSE \* yield from table_paragraphs(<container>.tables)
             Resume([w EXCEPT !.stack =
                       <<NewFrame(tb, Tables(ct[w.phase]))>>], tb, ct)
    ELSE ResumeTop(w, tb, ct, w.stack[Len(w.stack)])

NoDm == [p |-> 0, runs |-> <<>>, ri |-> 0, ms |-> <<>>, mi |-> 0]

NewWalker == [phase |-> "new", plist |-> <<>>, pi |-> 0, stack |-> <<>>]

InitWith(d) ==
    /\ para = d.para
    /\ rtext = d.rtext
    /\ rpics = [r \in 1..Len(d.rtext) |-> <<>>]
    /\ tbls = d.tbls
    /\ cont = d.cont
    /\ data = Data0
    /\ wk = NewWalker
    /\ dm = NoDm
    /\ pc = "walk"
    /\ err = ""
    /\ init0 = [para |-> d.para, rtext |-> d.rtext, tbls |-> d.tbls,
                cont |-> d.cont, data |-> Data0]
    /\ yielded = <<>>
    /\ calls = <<>>

InitFrom(d, ts) == \E p \in Focus(d) : InitWith(WithRuns(d, p, ts))

Init ==
    \E where \in Wheres, rows \in 1..MaxRows, cols \in 1..MaxCols,
       depth \in 0..MaxDepth, ts \in RunCases :
      InitFrom(MkDoc(where, rows, cols, depth), ts)


(***************************************************************************)
(* domp: the loops over the runs of a paragraph and the matches of a run.  *)
(***************************************************************************)
\* The loops of domp at run k of runs (0: no run is left), the first whose
\* text, as it is now, holds a match.
AtRun(p, runs, k, rt) ==
    IF k = 0 THEN NoDm
    ELSE [p |-> p, runs |-> runs, ri |-> k,
          ms |-> FindAll(rt[runs[k]]), mi |-> 1]

EnterRun(p, runs, k0, rt) ==
    AtRun(p, runs,
          MinOr({k \in k0..Len(runs) : FindAll(rt[runs[k]]) # <<>>}, 0), rt)

\* The loops of domp after a handler returned: the next match of the run
\* (of the list findall returned when the run was reached), else the next
\* run.
AfterMatch(d, rt) ==
    IF d.mi < Len(d.ms) THEN [d EXCEPT !.mi = @ + 1]
    ELSE EnterRun(d.p, d.runs, d.ri + 1, rt)

\* domp(paragraph): the check of paragraph.text, then the loops.
Domp(p, pa, rt) ==
    IF Search(ParaText(pa, rt, p)) THEN EnterRun(p, Runs(pa[p]), 1, rt)
    ELSE NoDm

PcOf(d) == IF d.p = 0 THEN "walk" ELSE "run"

CurRun   == dm.runs[dm.ri]
CurMatch == dm.ms[dm.mi]
CurToken == CurMatch.expr \o CurMatch.mod

Log(h) == Append(calls, [run |-> CurRun, expr |-> CurMatch.expr,
                         mod |-> CurMatch.mod, handler |-> h])

\* Slip: the text written through the handle of the run before r.
WriteTextStale(rt, r, s) == [rt EXCEPT ![IF r > 1 THEN r - 1 ELSE r] = s]

\* run.text = s: the run keeps nothing but the text (python-docx clears
\* the content of the run first, a picture included).
WriteText(rt, r, s) == [rt EXCEPT ![r] = s]
ClearPics(rp, r)    == [rp EXCEPT ![r] = <<>>]

\* run.text = run.text.replace(f'{expr}{mod}', '')
Erased == WriteText(rtext, CurRun, StrReplace(rtext[CurRun], CurToken, <<>>))

\* An exception escapes compile.
Fail(e) == /\ pc' = "failed"
           /\ err' = e
           /\ dm' = dm

\* The handler returned: domp goes on.
Continue == /\ dm' = AfterMatch(dm, rtext')
            /\ pc' = PcOf(dm')
            /\ err' = err

Yield(r) ==
    /\ r.out # 0
    /\ wk' = r.w
    /\ yielded' = Append(yielded, r.out)
    /\ dm' = Domp(r.out, para, rtext)
    /\ pc' = PcOf(dm')

\* The generator yields a paragraph and domp runs up to its first match.
NextParagraph ==
    /\ pc = "walk"
    /\ Yield(Resume(wk, tbls, cont))
    /\ UNCHANGED <<para, rtext, rpics, tbls, cont, data, err, init0, calls>>

Return(r) ==
    /\ r.out = 0
    /\ wk' = r.w
    /\ pc' = "done"

\* The generator returns; compile saves the document.
Finish ==
    /\ pc = "walk"
    /\ Return(Resume(wk, tbls, cont))
    /\ UNCHANGED <<para, rtext, rpics, tbls, cont, data, dm, err, init0,
                   yielded, calls>>

(***************************************************************************)
(* The handlers.                                                           *)
(***************************************************************************)
ReplaceWith(r) ==
    IF r.err # ""
    THEN /\ Fail(r.err)
         /\ UNCHANGED <<rtext, rpics, data>>
    ELSE /\ rtext' = WriteText(rtext, CurRun,
                       StrReplace(rtext[CurRun], CurToken, Str(r.val)))
         /\ rpics' = ClearPics(rpics, CurRun)
         /\ data' = r.data
         /\ Continue

replace ==
    /\ pc = "run"
    /\ HandlerOf(CurMatch.mod) = "replace"
    /\ calls' = Log("replace")
    /\ ReplaceWith(compile_expr(CurMatch.expr, data))
    /\ UNCHANGED <<para, tbls, cont, wk, init0, yielded>>

\* Mm(n): millimetres as English Metric Units.
Mm(n) == n * 36000

\* width and Mm(width)
DimArg(v) ==
    IF ~Truthy(v) THEN [err |-> "", val |-> v]
    ELSE IF v.t = "int" THEN [err |-> "", val |-> IntV(Mm(v.n))]
    ELSE IF v.t = "str" THEN [err |-> "ValueError", val |-> NoneV]
    ELSE [err |-> "TypeError", val |-> NoneV]

NoPic      == [err |-> "", pics |-> <<>>]
PicErr(e)  == [err |-> e, pics |-> <<>>]

\* run.add_picture(path, width=w, height=h), w and h as DimArg gave them.
AddPicture(path, w, h) ==
    IF w.err # "" THEN PicErr(w.err)
    ELSE IF h.err # "" THEN PicErr(h.err)
    ELSE IF path.t # "str" THEN PicErr("AttributeError")
    ELSE IF path.s \notin Files THEN PicErr("FileNotFoundError")
    ELSE [err |-> "",
          pics |-> <<[path |-> path.s, width |-> w.val, height |-> h.val]>>]

\* What img does with the value: the picture it adds (pics, none or one)
\* or the exception it raises.
Picture(v) ==
    IF ~Truthy(v) THEN NoPic
    ELSE IF v.t = "str" THEN AddPicture(v, DimArg(NoneV), DimArg(NoneV))
    ELSE IF v.t = "tuple" THEN
        IF Len(v.items) # 3 THEN PicErr("ValueError")
        ELSE AddPicture(v.items[1], DimArg(v.items[2]), DimArg(v.items[3]))
    ELSE NoPic

ImgAdd(q) ==
    /\ rpics' = [rpics EXCEPT ![CurRun] = q.pics]
    /\ IF q.err # "" THEN Fail(q.err) ELSE Continue

ImgWith(r) ==
    IF r.err # ""
    THEN /\ Fail(r.err)
         /\ rpics' = ClearPics(rpics, CurRun)
         /\ data' = data
    ELSE /\ data' = r.data
         /\ ImgAdd(Picture(r.val))

img ==
    /\ pc = "run"
    /\ HandlerOf(CurMatch.mod) = "img"
    /\ calls' = Log("img")
    /\ rtext' = Erased
    /\ ImgWith(compile_expr(CurMatch.expr, data))
    /\ UNCHANGED <<para, tbls, cont, wk, init0, yielded>>


\* v[0] and iter(v) of a value; what is not Subscriptable raises TypeError
\* (v[0] is taken of truthy values only).
Subscriptable(v) == v.t \in {"str", "list", "tuple"}
First(v)   == IF v.t = "str" THEN StrV(<<v.s[1]>>) ELSE v.items[1]
ItemsOf(v) == IF v.t = "str" THEN [k \in 1..Len(v.s) |-> StrV(<<v.s[k]>>)]
              ELSE v.items

\* The assignments table.cell(ridx, cidx).text = str(cell) of row r, whose
\* items are xs.  idx is the cell index python-docx computes,
\* cidx + ridx * column_count, counted from 0.
RowWrites(xs, r, cols) ==
    [k \in 1..Len(xs) |->
       [idx |-> (k - 1) + (r - 1) * cols, text |-> Str(xs[k])]]

Prepend(mine, rest) == [ws |-> mine \o rest.ws, err |-> rest.err]

\* The assignments of the two loops over the rows from row r on, in order,
\* up to a row that cannot be iterated.
RECURSIVE CellWrites(_, _, _)
CellWrites(rowvals, r, cols) ==
    IF r > Len(rowvals) THEN [ws |-> <<>>, err |-> ""]
    ELSE IF ~Subscriptable(rowvals[r]) THEN [ws |-> <<>>, err |-> "TypeError"]
    ELSE Prepend(RowWrites(ItemsOf(rowvals[r]), r, cols),
                 CellWrites(rowvals, r + 1, cols))

PlanNone     == [kind |-> "none", err |-> "", rows |-> 0, cols |-> 0,
                 ws |-> <<>>]
PlanRaise(e) == [kind |-> "raise", err |-> e, rows |-> 0, cols |-> 0,
                 ws |-> <<>>]

\* The assignments cw, cut at the first one (the k-th, 0: none) whose
\* cell index is past the cells of the table: that one raises IndexError.
BuildCut(rows, cols, cw, k) ==
    IF k = 0
    THEN [kind |-> "table", err |-> cw.err, rows |-> rows, cols |-> cols,
          ws |-> cw.ws]
    ELSE [kind |-> "table", err |-> "IndexError", rows |-> rows,
          cols |-> cols, ws |-> SubSeq(cw.ws, 1, k - 1)]

BuildWrites(rows, cols, cw) ==
    BuildCut(rows, cols, cw,
             MinOr({k \in 1..Len(cw.ws) : cw.ws[k].idx >= rows * cols}, 0))

BuildCols(v, cols) ==
    BuildWrites(Len(v.items), cols, CellWrites(v.items, 1, cols))

\* doc.add_table(len(matrix), len(matrix[0])) and the loops that fill it.
Build(v) ==
    IF ~Subscriptable(First(v)) THEN PlanRaise("TypeError")
    ELSE BuildCols(v, Len(ItemsOf(First(v))))

\* What tbl does with the value: nothing (kind "none"), raise before a
\* table exists ("raise"), or create a rows x cols table and perform the
\* assignments ws ("table"; err is the exception that ends them, or "").
TablePlan(v) ==
    IF ~Truthy(v) THEN PlanNone
    \* not isinstance(matrix, list) and not isinstance(matrix[0], list)
    ELSE IF v.t # "list" THEN
        IF ~Subscriptable(v) THEN PlanRaise("TypeError")
        ELSE IF First(v).t # "list" THEN PlanNone
        ELSE Build(v)
    ELSE Build(v)

Rank(W, i)      == Cardinality({j \in W : j <= i})
Nth(W, k)       == CHOOSE i \in W : Rank(W, i) = k
LastText(ws, i) == ws[MaxOf({k \in 1..Len(ws) : ws[k].idx = i})].text

\* The heap with a new rows x cols table: one paragraph per cell, and in
\* the paragraph of each cell assigned to (the cells of index in W) one
\* run holding the text last assigned.
NewTableW(pa, rt, rp, tb, rows, cols, ws, W) ==
    [para  |-> pa \o [i \in 1..(rows * cols) |->
                        IF (i - 1) \in W
                        THEN << <<"r", Len(rt) + Rank(W, i - 1)>> >>
                        ELSE <<>>],
     rtext |-> rt \o [k \in 1..Cardinality(W) |-> LastText(ws, Nth(W, k))],
     rpics |-> rp \o [k \in 1..Cardinality(W) |-> <<>>],
     tbls  |-> Append(tb,
                 [rows |-> rows, cols |-> cols,
                  cell |-> [rc \in (1..rows) \X (1..cols) |->
                              << <<"p", Len(pa) + (rc[1] - 1) * cols
                                        + rc[2]>> >>]]),
     id    |-> Len(tb) + 1]

NewTable(pa, rt, rp, tb, rows, cols, ws) ==
    NewTableW(pa, rt, rp, tb, rows, cols, ws,
              {ws[k].idx : k \in 1..Len(ws)})

\* seq with item y put right after its item x.
InsertAfter(seq, x, y) ==
    SubSeq(seq, 1, CHOOSE i \in 1..Len(seq) : seq[i] = x) \o <<y>>
    \o SubSeq(seq, (CHOOSE i \in 1..Len(seq) : seq[i] = x) + 1, Len(seq))

\* bs with table t put right after paragraph p when bs holds p.
PutAfter(bs, p, t) ==
    IF \E i \in 1..Len(bs) : bs[i] = <<"p", p>>
    THEN InsertAfter(bs, <<"p", p>>, <<"t", t>>) ELSE bs

\* Slip: the table spliced into the container of paragraph p, right after
\* p, where the generator finds it.
AddAfterParagraph(pa, ct, tb, p, r, t) ==
    [para |-> pa,
     cont |-> [ph \in DOMAIN ct |-> PutAfter(ct[ph], p, t)],
     tbls |-> [k \in 1..Len(tb) |->
                 [tb[k] EXCEPT !.cell =
                    [rc \in DOMAIN tb[k].cell |->
                       PutAfter(tb[k].cell[rc], p, t)]]]]

\* run.element.addnext(table._tbl): the table element t, which add_table
\* appended to the body, becomes the sibling following the element of run
\* r, a child of the paragraph p of the run.
AddNext(pa, ct, tb, p, r, t) ==
    [para |-> [pa EXCEPT ![p] = InsertAfter(@, <<"r", r>>, <<"t", t>>)],
     cont |-> ct,
     tbls |-> tb]

Spliced(an) ==
    /\ para' = an.para
    /\ cont' = an.cont
    /\ tbls' = an.tbls

TblBuild(tp, nt) ==
    /\ rtext' = nt.rtext
    /\ rpics' = nt.rpics
    /\ IF tp.err # ""
       THEN \* the table stays where add_table put it
            /\ Fail(tp.err)
            /\ para' = nt.para
            /\ tbls' = nt.tbls
            /\ cont' = [cont EXCEPT !.body = Append(@, <<"t", nt.id>>)]
       ELSE /\ Spliced(AddNext(nt.para, cont, nt.tbls, dm.p, CurRun, nt.id))
            /\ Continue

TblPlanned(tp) ==
    IF tp.kind = "raise"
    THEN /\ Fail(tp.err)
         /\ rtext' = Erased
         /\ rpics' = ClearPics(rpics, CurRun)
         /\ UNCHANGED <<para, tbls, cont>>
    ELSE IF tp.kind = "none"
    THEN /\ rtext' = Erased
         /\ rpics' = ClearPics(rpics, CurRun)
         /\ Continue
         /\ UNCHANGED <<para, tbls, cont>>
    ELSE TblBuild(tp, NewTable(para, Erased, ClearPics(rpics, CurRun), tbls,
                               tp.rows, tp.cols, tp.ws))

TblWith(r) ==
    /\ data' = r.data
    /\ TblPlanned(IF r.err # "" THEN PlanRaise(r.err) ELSE TablePlan(r.val))

tbl ==
    /\ pc = "run"
    /\ HandlerOf(CurMatch.mod) = "tbl"
    /\ Len(tbls) - Len(init0.tbls) < MaxNewTables
    /\ calls' = Log("tbl")
    /\ TblWith(compile_expr(CurMatch.expr, data))
    /\ UNCHANGED <<wk, init0, yielded>>

\* The modifier names something of the module that is no handler: calling
\* it with the five arguments raises TypeError.
call_other ==
    /\ pc = "run"
    /\ HandlerOf(CurMatch.mod) \notin {"replace", "img", "tbl"}
    /\ calls' = Log(HandlerOf(CurMatch.mod))
    /\ Fail("TypeError")
    /\ UNCHANGED <<para, rtext, rpics, tbls, cont, data, wk, init0, yielded>>

Next ==
    \/ NextParagraph
    \/ Finish
    \/ replace
    \/ img
    \/ tbl
    \/ call_other

Spec == Init /\ [][Next]_vars


(***************************************************************************)
(* Properties.                                                             *)
(***************************************************************************)
Terminated == pc \in {"done", "failed"}

\* The runs and paragraphs of the document compile was given.
Runs0  == 1..Len(init0.rtext)
Paras0 == 1..Len(init0.para)

\* The (expr, mod) pairs of the text run r held when compile began.
Matches0(r) == FindAll(init0.rtext[r])

\* The name a token expression spells: its text without "@" and braces.
NameOf(expr) == StripBraces(Tail(expr))

\* Run r held, when compile began, exactly one token and nothing else.
OneToken(r) ==
    /\ Len(Matches0(r)) = 1
    /\ Matches0(r)[1].expr \o Matches0(r)[1].mod = init0.rtext[r]

NewTables == (Len(init0.tbls) + 1)..Len(tbls)

NoPictures == \A r \in 1..Len(rpics) : rpics[r] = <<>>

\* C1: a paragraph whose concatenated run text holds no match of the token
\* pattern keeps its runs and the text of each of them, in every state of
\* compile.
C1_NoTokenParagraphUntouched ==
    \A p \in Paras0 :
        ~Search(ParaText(init0.para, init0.rtext, p))
        => /\ Runs(para[p]) = Runs(init0.para[p])
           /\ \A k \in 1..Len(Runs(para[p])) :
                 rtext[Runs(para[p])[k]] = init0.rtext[Runs(para[p])[k]]

\* C1 witness: compile is over, a handler added a table and rewrote a run,
\* and the document holds a paragraph with "@" and "!" in it and no match.
C1_Witness ==
    /\ pc = "done"
    /\ NewTables # {}
    /\ rtext[1] # init0.rtext[1]
    /\ \E p \in Paras0 :
          /\ ParaText(init0.para, init0.rtext, p) = NoToken
          /\ ParaText(para, rtext, p) = NoToken

\* The text s with each match of ms (spans of s, in order, from position
\* pos on) replaced by the string form of the value its name has in d.
RECURSIVE C2_Subst(_, _, _, _)
C2_Subst(s, ms, pos, d) ==
    IF ms = <<>> THEN Slice(s, pos, Len(s))
    ELSE Slice(s, pos, ms[1].from - 1)
         \o Str(d[NameOf(ms[1].expr)])
         \o C2_Subst(s, Tail(ms), ms[1].to, d)

\* Every token of run r dispatches to replace and names a key of the data.
C2_Pre(r) ==
    /\ Matches0(r) # <<>>
    /\ \A k \in 1..Len(Matches0(r)) :
          /\ HandlerOf(Matches0(r)[k].mod) = "replace"
          /\ NameOf(Matches0(r)[k].expr) \in DOMAIN init0.data

\* C2 (as claimed): after compile a run whose tokens all dispatch to
\* replace and resolve in the data holds its original text with each token
\* occurrence replaced by the string form of that token's own value.
C2_EachTokenReplacedByOwnValue ==
    pc = "done" =>
        \A r \in Runs0 :
            C2_Pre(r) =>
                rtext[r] = C2_Subst(init0.rtext[r],
                                    ScanFrom(init0.rtext[r], 1), 1, init0.data)

\* C3 (as claimed): after compile a run that held @<identifier>, the
\* identifier no key of the data mapping, holds the same text.
C3_UnknownNameLeftVerbatim ==
    pc = "done" =>
        \A r \in Runs0 :
            ( /\ OneToken(r)
              /\ Matches0(r)[1].mod = <<>>
              /\ init0.rtext[r] = At(NameOf(init0.rtext[r]))
              /\ IsIdent(NameOf(init0.rtext[r]))
              /\ NameOf(init0.rtext[r]) \notin DOMAIN init0.data )
            => rtext[r] = init0.rtext[r]

\* v is a non-empty rectangular matrix: a list of lists of one length.
IsMatrix(v) ==
    /\ v.t = "list"
    /\ v.items # <<>>
    /\ \A k \in 1..Len(v.items) :
          /\ v.items[k].t = "list"
          /\ v.items[k].items # <<>>
          /\ Len(v.items[k].items) = Len(v.items[1].items)

\* Run r held one token <name><mod> and name is bound in the data.
BoundToken(r, mod) ==
    /\ OneToken(r)
    /\ Matches0(r)[1].mod = mod
    /\ NameOf(Matches0(r)[1].expr) \in DOMAIN init0.data

ValueOf(r) == init0.data[NameOf(Matches0(r)[1].expr)]

\* The block items of every container of the document as it is now: the
\* body, the header, the footer and the cells of the tables.
Containers ==
    {cont.body, cont.header, cont.footer}
    \cup UNION { {tbls[t].cell[rc] : rc \in DOMAIN tbls[t].cell} :
                 t \in 1..Len(tbls) }

\* Table t is the block item right after paragraph p in a container.
RightAfter(p, t) ==
    \E bs \in Containers : \E i \in 1..(Len(bs) - 1) :
        bs[i] = <<"p", p>> /\ bs[i + 1] = <<"t", t>>

\* Table t holds matrix m: same rows and columns, each cell one paragraph
\* of one run whose text is the string form of the entry.
HoldsMatrix(t, m) ==
    /\ tbls[t].rows = Len(m.items)
    /\ tbls[t].cols = Len(m.items[1].items)
    /\ \A rc \in DOMAIN tbls[t].cell :
          /\ Len(tbls[t].cell[rc]) = 1
          /\ ParaText(para, rtext, tbls[t].cell[rc][1][2])
               = Str(m.items[rc[1]].items[rc[2]])

ParaOfRun0(r) == CHOOSE p \in Paras0 : <<"r", r>> \in
                    {init0.para[p][k] : k \in 1..Len(init0.para[p])}

\* C4 (as claimed): after compile, for a run that held one !tbl token
\* whose value is a non-empty rectangular matrix, the token text is gone,
\* one new table holds the matrix, that table is the block item right
\* after the paragraph of the run, and the block items the containers had
\* keep their relative order.
C4_TableRightAfterParagraph ==
    pc = "done" =>
        \A r \in Runs0 :
            (BoundToken(r, MTbl) /\ IsMatrix(ValueOf(r)))
            => /\ rtext[r] = <<>>
               /\ Cardinality(NewTables) = 1
               /\ \A t \in NewTables :
                     /\ HoldsMatrix(t, ValueOf(r))
                     /\ RightAfter(ParaOfRun0(r), t)
               /\ \A ph \in {"body", "header", "footer"} :
                     /\ Paragraphs(cont[ph]) = Paragraphs(init0.cont[ph])
                     /\ \A k \in 1..Len(Tables(init0.cont[ph])) :
                           \E j \in 1..Len(Tables(cont[ph])) :
                              Tables(cont[ph])[j] = Tables(init0.cont[ph])[k]

\* The value is no payload img takes: neither a string nor a triple.
C5_BadImage(v) == v.t # "str" /\ ~(v.t = "tuple" /\ Len(v.items) = 3)

\* C5 (as claimed): for a run that held one !img token whose value is
\* neither a string nor a triple, or one !tbl token whose value is no
\* non-empty rectangular matrix, compile raises nothing and, once over, has
\* erased the token and inserted no picture and no table.
C5_MalformedPayloadIsNoOp ==
    \A r \in Runs0 :
        ( \/ BoundToken(r, MImg) /\ C5_BadImage(ValueOf(r))
          \/ BoundToken(r, MTbl) /\ ~IsMatrix(ValueOf(r)) )
        => /\ pc # "failed"
           /\ pc = "done" =>
                 /\ rtext[r] = <<>>
                 /\ NewTables = {}
                 /\ NoPictures

\* C6 (as claimed): for a run that held one token @<name>!img or
\* @<name>!tbl, the name absent from the data mapping, compile raises
\* nothing and, once over, has erased the token and inserted no picture
\* and no table.
C6_UnresolvedImgTblRecovers ==
    \A r \in Runs0 :
        ( /\ OneToken(r)
          /\ Matches0(r)[1].mod \in {MImg, MTbl}
          /\ IsIdent(NameOf(Matches0(r)[1].expr))
          /\ NameOf(Matches0(r)[1].expr) \notin DOMAIN init0.data )
        => /\ pc # "failed"
           /\ pc = "done" =>
                 /\ rtext[r] = <<>>
                 /\ NewTables = {}
                 /\ NoPictures

\* C7 (as claimed): every handler invocation is of img for the modifier
\* !img, of tbl for !tbl, and of replace for any other or no modifier.
C7_DispatchIsOneOfThree ==
    \A k \in 1..Len(calls) :
        calls[k].handler =
            IF calls[k].mod = MImg THEN "img"
            ELSE IF calls[k].mod = MTbl THEN "tbl"
            ELSE "replace"

\* The paragraphs of the block items, then those of the tables among
\* them: per table the columns left to right, per column the cells top to
\* bottom, per cell its paragraphs and then its tables.
RECURSIVE C8_Blocks(_, _)
RECURSIVE C8_Tables(_, _)
RECURSIVE C8_Cells(_, _, _, _)
C8_Blocks(tb, blocks) == Paragraphs(blocks) \o C8_Tables(tb, Tables(blocks))

C8_Tables(tb, ts) ==
    IF ts = <<>> THEN <<>>
    ELSE C8_Cells(tb, ts[1], 1, 1) \o C8_Tables(tb, Tail(ts))

C8_Cells(tb, t, c, r) ==
    IF c > tb[t].cols THEN <<>>
    ELSE IF r > tb[t].rows THEN C8_Cells(tb, t, c + 1, 1)
    ELSE C8_Blocks(tb, tb[t].cell[<<r, c>>]) \o C8_Cells(tb, t, c, r + 1)

C8_Order ==
    C8_Blocks(init0.tbls, init0.cont.body)
    \o C8_Blocks(init0.tbls, init0.cont.header)
    \o C8_Blocks(init0.tbls, init0.cont.footer)

C9_DataUnchanged == data = init0.data

\* The handler invocations of paragraphs ps: one per match of each run of
\* each paragraph that passes the check, the matches taken in the text the
\* run held when compile began.
RECURSIVE C10_RunCalls(_)
C10_RunCalls(rs) ==
    IF rs = <<>> THEN <<>>
    ELSE [k \in 1..Len(Matches0(rs[1])) |->
            [run |-> rs[1], expr |-> Matches0(rs[1])[k].expr,
             mod |-> Matches0(rs[1])[k].mod]]
         \o C10_RunCalls(Tail(rs))

RECURSIVE C10_Calls(_)
C10_Calls(ps) ==
    IF ps = <<>> THEN <<>>
    ELSE (IF ps[1] \in Paras0
             /\ Search(ParaText(init0.para, init0.rtext, ps[1]))
          THEN C10_RunCalls(Runs(init0.para[ps[1]])) ELSE <<>>)
         \o C10_Calls(Tail(ps))

C10_Made ==
    [k \in 1..Len(calls) |->
       [run |-> calls[k].run, expr |-> calls[k].expr, mod |-> calls[k].mod]]

\* The steps compile has taken: paragraphs yielded, handlers invoked, and
\* the step that ended it.
C10_Steps == Len(yielded) + Len(calls) + (IF Terminated THEN 1 ELSE 0)

\* The handler invocations are a prefix of those the yielded paragraphs
\* call for, all of them once compile completed; the paragraphs yielded are
\* no more than the document had when compile began.
C10_Bounded ==
    /\ Len(yielded) <= Len(C8_Order)
    /\ Len(calls) <= Len(C10_Calls(yielded))
    /\ C10_Made = SubSeq(C10_Calls(yielded), 1, Len(calls))
    /\ pc = "done" => C10_Made = C10_Calls(yielded)

\* compile is never stuck before it ends: between two paragraphs the
\* generator yields a paragraph of the document or returns, and at a match
\* the handler of its modifier is invoked (the bound on the tables tbl may
\* insert never holds tbl back).
C10_Progress ==
    /\ pc = "walk" => Resume(wk, tbls, cont).out \in 0..Len(para)
    /\ pc = "run" =>
          /\ dm.mi \in 1..Len(dm.ms)
          /\ HandlerOf(CurMatch.mod) = "tbl"
                => Len(tbls) - Len(init0.tbls) < MaxNewTables

\* C10: compile terminates. Every step is a new paragraph yielded, a new
\* handler invocation or the end of compile; the paragraphs yielded and the
\* handlers invoked are bounded by the document compile was given (one
\* invocation per match of the run text as it was when compile began, which
\* is the text when the run was reached); and compile is never stuck
\* before it ends.
C10_Terminates ==
    /\ [](C10_Bounded /\ C10_Progress)
    /\ [][C10_Steps' > C10_Steps]_vars

\* C10 witness: compile is over after tbl inserted a table with a cell
\* whose text holds a !tbl token.
C10_Witness ==
    /\ pc = "done"
    /\ \E r \in (Len(init0.rtext) + 1)..Len(rtext) :
          /\ FindAll(rtext[r]) # <<>>
          /\ FindAll(rtext[r])[1].mod = MTbl

====
